---- MODULE Spec2Model ----
(***************************************************************************)
(* AI-Vision-Agriculture: the placeholder vision analyzer                  *)
(* (src/src/analyzer.py), its data contracts (src/src/models.py) and the   *)
(* /analyze endpoint (src/src/api.py).                                     *)
(*                                                                         *)
(* Numbers.  Every float of the program is a fixed-point integer with four *)
(* decimals (Scale units per 1.0): latitude -21.1234 is -211234, an ATR of *)
(* 14.0 kg/ton is 140000, a confidence of 0.75 is 7500.                    *)
(*                                                                         *)
(* Generator.  Python's process-wide `random` generator is one shared      *)
(* variable, rng.  random.seed(n) sets it from n alone; every draw         *)
(* advances it and yields a fraction u / RngMod of [0, 1).  The generator  *)
(* is deterministic: its outputs are a function of its state.              *)
(***************************************************************************)
EXTENDS Integers, Sequences, FiniteSets, TLC

VARIABLES rng, th, gpsArgs, gpsResult, imgArg, imgResult, request, response,
          draws, entity

vars == <<rng, th, gpsArgs, gpsResult, imgArg, imgResult, request, response,
          draws, entity>>

(***************************************************************************)
(* Bounds of the model                                                     *)
(***************************************************************************)
\* number of states of the generator, and resolution of a draw
RngMod == 71
\* time.time() readings run over 0..MaxTime (seconds)
MaxTime == 1

(***************************************************************************)
(* Program constants                                                       *)
(***************************************************************************)
Scale == 10000
MinSize == 224
MaxSize == 4096
MaxUploadMB == 10

Threads == {1, 2}
Units == 0 .. (RngMod - 1)
Times == 0 .. MaxTime

(***************************************************************************)
(* Arithmetic                                                              *)
(***************************************************************************)
Abs(x) == IF x >= 0 THEN x ELSE -x

\* int(x / d) of Python: truncation toward zero
TruncDiv(x, d) == IF x >= 0 THEN x \div d ELSE -((-x) \div d)

\* round(x, n): to the nearest multiple of q, ties to the even multiple
RoundTo(x, q) ==
    LET f == (x \div q) * q
        r == x - f
    IN  IF 2 * r < q THEN f
        ELSE IF 2 * r > q THEN f + q
        ELSE IF (f \div q) % 2 = 0 THEN f ELSE f + q

(***************************************************************************)
(* The process-wide generator                                              *)
(***************************************************************************)
\* random.seed(n): the state is a function of n alone (of abs(n) for an int)
SeedState(n) == Abs(n) % RngMod

\* the generator's step: every draw moves the state on
Advance(s) == (13 * s + 3) % RngMod

\* random.uniform(a, b) == a + (b - a) * random(), with random() == u / RngMod
Uniform(a, b, u) == a + ((b - a) * u) \div RngMod

\* random() > p / 100
Exceeds(u, p) == 100 * u > p * RngMod

(***************************************************************************)
(* Exceptions                                                              *)
(***************************************************************************)
NoError == [cls |-> "", head |-> "", status |-> 0]
Raise(c, h) == [cls |-> c, head |-> h, status |-> 0]

\* fastapi.HTTPException(status_code=, detail=)
HTTPException(code, detail) ==
    [cls |-> "HTTPException", head |-> detail, status |-> code]

\* `except ValueError` catches ValueError and pydantic's ValidationError,
\* which derives from it; HTTPException and PIL's UnidentifiedImageError
\* (an OSError) derive from Exception only
IsValueError(e) == e.cls \in {"ValueError", "ValidationError"}

(***************************************************************************)
(* models.py: GPSCoordinates                                               *)
(***************************************************************************)
LatMin == -34 * Scale
LatMax == -1 * Scale
LonMin == -74 * Scale
LonMax == -32 * Scale
AltMin == 0
AltMax == 3000 * Scale

\* faulty variant: gt / lt in place of ge / le
FieldRangeStrict(v, lo, hi) ==
    IF v >= hi THEN "Input should be less than"
    ELSE IF v <= lo THEN "Input should be greater than"
    ELSE ""

\* Field(ge=lo, le=hi): the constraint of the field's own schema
FieldRange(v, lo, hi) ==
    IF v > hi THEN "Input should be less than or equal to"
    ELSE IF v < lo THEN "Input should be greater than or equal to"
    ELSE ""

validate_lat(v) ==
    IF ~(LatMin <= v /\ v <= LatMax) THEN "Latitude must be between" ELSE ""

validate_lon(v) ==
    IF ~(LonMin <= v /\ v <= LonMax) THEN "Longitude must be between" ELSE ""

\* a field_validator runs in mode "after": on the value the field's schema
\* has accepted, and not at all when the schema has rejected it
LatField(v) ==
    IF FieldRange(v, LatMin, LatMax) # "" THEN FieldRange(v, LatMin, LatMax)
    ELSE validate_lat(v)

LonField(v) ==
    IF FieldRange(v, LonMin, LonMax) # "" THEN FieldRange(v, LonMin, LonMax)
    ELSE validate_lon(v)

\* Optional[float]: absent is <<>>, present is <<v>>
AltField(a) == IF a = <<>> THEN "" ELSE FieldRange(a[1], AltMin, AltMax)

\* GPSCoordinates(lat=, lon=, altitude=): every field is validated and the
\* messages of all failing fields are collected into one ValidationError
GPSCoordinates(lat, lon, altitude) ==
    LET msgs == {LatField(lat), LonField(lon), AltField(altitude)} \ {""}
    IN  IF msgs = {}
        THEN [ok |-> TRUE, msgs |-> {},
              value |-> <<[lat |-> lat, lon |-> lon, altitude |-> altitude]>>]
        ELSE [ok |-> FALSE, msgs |-> msgs, value |-> <<>>]

(***************************************************************************)
(* analyzer.py: _validate_image                                            *)
(***************************************************************************)
\* faulty variant: <= and >= in the size checks: the limits themselves are rejected
ValidateImageStrict(image) ==
    IF image.format \notin {"JPEG", "PNG"}
    THEN Raise("ValueError", "Unsupported image format")
    ELSE IF image.width <= MinSize \/ image.height <= MinSize
    THEN Raise("ValueError", "Image too small")
    ELSE IF image.width >= MaxSize \/ image.height >= MaxSize
    THEN Raise("ValueError", "Image too large")
    ELSE NoError

\* faulty variant: the maximum is checked before the minimum
ValidateImageLargeFirst(image) ==
    IF image.format \notin {"JPEG", "PNG"}
    THEN Raise("ValueError", "Unsupported image format")
    ELSE IF image.width > MaxSize \/ image.height > MaxSize
    THEN Raise("ValueError", "Image too large")
    ELSE IF image.width < MinSize \/ image.height < MinSize
    THEN Raise("ValueError", "Image too small")
    ELSE NoError

\* faulty variant: the size is checked before the format
ValidateImageSizeFirst(image) ==
    IF image.width < MinSize \/ image.height < MinSize
    THEN Raise("ValueError", "Image too small")
    ELSE IF image.width > MaxSize \/ image.height > MaxSize
    THEN Raise("ValueError", "Image too large")
    ELSE IF image.format \notin {"JPEG", "PNG"}
    THEN Raise("ValueError", "Unsupported image format")
    ELSE NoError

_validate_image(image) ==
    IF image.format \notin {"JPEG", "PNG"}
    THEN Raise("ValueError", "Unsupported image format")
    ELSE IF image.width < MinSize \/ image.height < MinSize
    THEN Raise("ValueError", "Image too small")
    ELSE IF image.width > MaxSize \/ image.height > MaxSize
    THEN Raise("ValueError", "Image too large")
    ELSE NoError

(***************************************************************************)
(* models.py: the response models                                          *)
(***************************************************************************)
Levels == {"immature", "early_maturity", "ready_to_harvest", "late_harvest",
           "overripe"}
Severities == {"low", "moderate", "high", "critical"}

InRange(v, lo, hi) == lo <= v /\ v <= hi

\* faulty variant: an untypical ATR is clamped into [8, 20]
ValidateAtrClamped(v) ==
    IF v < 8 * Scale THEN 8 * Scale
    ELSE IF v > 20 * Scale THEN 20 * Scale
    ELSE v

\* the ATR validator only notes an untypical value and returns it unchanged
validate_atr(v) == IF ~(8 * Scale <= v /\ v <= 20 * Scale) THEN v ELSE v

MaturityAnalysisOk(m) ==
    /\ m.level \in Levels
    /\ InRange(m.confidence, 0, Scale)
    /\ InRange(m.estimated_atr, 0, 25 * Scale)
    /\ validate_atr(m.estimated_atr) = m.estimated_atr
    /\ InRange(m.estimated_pol, 0, 25 * Scale)
    /\ InRange(m.estimated_brix, 0, 30 * Scale)

validate_bbox(v) ==
    /\ Len(v) = 4
    /\ \A i \in 1 .. Len(v) : InRange(v[i], 0, Scale)

PestDetectionOk(p) ==
    /\ InRange(p.confidence, 0, Scale)
    /\ p.severity \in Severities
    /\ validate_bbox(p.bounding_box)

DiseaseDetectionOk(d) ==
    /\ InRange(d.confidence, 0, Scale)
    /\ d.severity \in Severities
    /\ InRange(d.affected_area_pct, 0, 100 * Scale)

\* VisionAnalysisResponse: processing_time_ms has ge=0.0; the nested models
\* were validated when they were built
VisionAnalysisResponseOk(r) == r.processing_time_ms >= 0

(***************************************************************************)
(* analyzer.py: the draws                                                  *)
(***************************************************************************)
\* faulty variant: the altitude, when there is one, is added to the seed
SeedOfWithAltitude(image, gps) ==
    TruncDiv((gps.lat + gps.lon) * 1000, Scale) + image.width + image.height
        + (IF gps.altitude = <<>> THEN 0 ELSE TruncDiv(gps.altitude[1], Scale))

\* faulty variant: math.floor in place of int: rounding toward minus infinity
SeedOfFloor(image, gps) ==
    ((gps.lat + gps.lon) * 1000) \div Scale + image.width + image.height

\* seed = int((gps.lat + gps.lon) * 1000) + width + height
SeedOf(image, gps) ==
    TruncDiv((gps.lat + gps.lon) * 1000, Scale) + image.width + image.height

maturity_levels ==
    << [level |-> "immature", atr |-> 105000, pol |-> 120000, brix |-> 140000],
       [level |-> "early_maturity", atr |-> 125000, pol |-> 145000, brix |-> 160000],
       [level |-> "ready_to_harvest", atr |-> 140000, pol |-> 165000, brix |-> 185000],
       [level |-> "late_harvest", atr |-> 135000, pol |-> 158000, brix |-> 178000],
       [level |-> "overripe", atr |-> 120000, pol |-> 140000, brix |-> 165000] >>

\* weights 0.1, 0.15, 0.5, 0.15, 0.1 accumulated, in percent
cum_weights == <<10, 25, 75, 90, 100>>

\* random.choices(population, weights)[0]: the index is the number of
\* accumulated weights, the last one apart, that are <= random() * total
WeightedIndex(u) ==
    1 + Cardinality({i \in 1 .. 4 : cum_weights[i] * RngMod <= 100 * u})

\* random.choice(seq) over n entries
ChoiceIndex(n, u) == 1 + (n * u) \div RngMod

pest_types ==
    << [type |-> "sugarcane_borer", severity |-> "moderate"],
       [type |-> "spittlebug", severity |-> "low"],
       [type |-> "white_grub", severity |-> "moderate"],
       [type |-> "aphid", severity |-> "low"] >>

disease_types ==
    << [type |-> "red_rot", severity |-> "high"],
       [type |-> "smut", severity |-> "moderate"],
       [type |-> "rust", severity |-> "low"],
       [type |-> "mosaic_virus", severity |-> "moderate"] >>

\* faulty variant: base + random.uniform(-1.0, 1.0)
JitterWide(base, u) == base + Uniform(-10000, 10000, u)

\* base + random.uniform(-0.5, 0.5)
Jitter(base, u) == base + Uniform(-5000, 5000, u)

(***************************************************************************)
(* Inputs                                                                  *)
(***************************************************************************)
Img(f, w, h) == [format |-> f, width |-> w, height |-> h]

\* images handed to the analyzer: valid ones (two of them with the same
\* width + height), the two limits, and one of each kind of invalid image
Images ==
    { Img("JPEG", 640, 480), Img("JPEG", 480, 640), Img("PNG", 224, 4096),
      Img("BMP", 640, 480), Img("JPEG", 100, 5000), Img("JPEG", 5000, 640) }

Gps(lat, lon, altitude) == GPSCoordinates(lat, lon, altitude).value[1]

\* GPS points of callers: two with the same lat + lon, with and without altitude
GpsPoints ==
    { Gps(-211234, -475678, <<5800000>>), Gps(-211234, -475678, <<>>),
      Gps(-211230, -475682, <<>>), Gps(-10000, -320000, <<>>) }

\* image identifier and capture time of a photograph
Captures ==
    { [image_id |-> "img_001.jpg", timestamp |-> "2026-02-20T10:30:00"],
      [image_id |-> "img_002.jpg", timestamp |-> "2026-02-21T08:00:00"] }

(***************************************************************************)
(* analyzer.py: VisionAnalyzer.analyze_image, one generator operation per  *)
(* step.  th[t] is the call thread t is executing: its arguments, its      *)
(* locals, and what it returned or raised.                                 *)
(***************************************************************************)
NoLocals == [level |-> 0, atr |-> 0, pol |-> 0, brix |-> 0, kind |-> 0,
             x1 |-> 0, y1 |-> 0, x2 |-> 0, y2 |-> 0, conf |-> 0]

Idle ==
    [pc |-> "idle", image |-> Img("", 0, 0), image_id |-> "",
     gps |-> [lat |-> 0, lon |-> 0, altitude |-> <<>>], timestamp |-> "",
     model_version |-> "", start_time |-> 0,
     loc |-> NoLocals, maturity |-> <<>>, pests |-> <<>>, diseases |-> <<>>,
     result |-> <<>>, error |-> NoError]

\* no step of the analyzer has been run on its own
NoDraws == [step |-> "", u |-> <<>>]
NoEntity == [value |-> <<>>, error |-> NoError]

\* an exception leaves analyze_image: the frame is gone, the error remains
Raised(e) == [Idle EXCEPT !.pc = "raised", !.error = e]

AtRest(t) == th[t].pc \in {"idle", "done", "raised"}

\* scheduling: a thread that is preempted in the middle of a call resumes when
\* the call of the preempting (higher-numbered) thread has returned
Runnable(t) == \A o \in Threads : o > t => AtRest(o)

ModelVersions == {"placeholder-v0.1"}

\* analyze_image of an analyzer built with one of `versions` is entered:
\* start_time = time.time()
CallAs(t, images, points, captures, versions, clock) ==
    /\ AtRest(t)
    /\ \E image \in images, c \in captures, gps \in points,
          mv \in versions, now \in clock :
          th' = [th EXCEPT ![t] =
                    [Idle EXCEPT !.pc = "validate", !.image = image,
                                 !.image_id = c.image_id, !.gps = gps,
                                 !.timestamp = c.timestamp,
                                 !.model_version = mv, !.start_time = now]]
    /\ UNCHANGED <<rng, gpsArgs, gpsResult, imgArg, imgResult, request, response,
                 draws, entity>>

CallWith(t, images, points, captures, clock) ==
    CallAs(t, images, points, captures, ModelVersions, clock)

Call(t) == CallWith(t, Images, GpsPoints, Captures, Times)

\* faulty variant: the image is validated only after _analyze_maturity has seeded
ValidateAfterSeeding(t) ==
    /\ th[t].pc = "validate"
    /\ Runnable(t)
    /\ rng' = SeedState(SeedOf(th[t].image, th[t].gps))
    /\ th' = [th EXCEPT ![t] =
                 IF _validate_image(th[t].image) = NoError
                 THEN [@ EXCEPT !.pc = "m_level"]
                 ELSE Raised(_validate_image(th[t].image))]
    /\ UNCHANGED <<gpsArgs, gpsResult, imgArg, imgResult, request, response,
                 draws, entity>>

\* self._validate_image(image): an error leaves analyze_image at once
Validate(t) ==
    /\ th[t].pc = "validate"
    /\ Runnable(t)
    /\ th' = [th EXCEPT ![t] =
                 IF _validate_image(th[t].image) = NoError
                 THEN [@ EXCEPT !.pc = "seed"]
                 ELSE Raised(_validate_image(th[t].image))]
    /\ UNCHANGED <<rng, gpsArgs, gpsResult, imgArg, imgResult, request, response,
                 draws, entity>>

\* faulty variant: random.seed(int(start_time)): the seed is the clock's reading
SeedGeneratorFromClock(t) ==
    /\ th[t].pc = "seed"
    /\ Runnable(t)
    /\ rng' = SeedState(th[t].start_time)
    /\ th' = [th EXCEPT ![t].pc = "m_level"]
    /\ UNCHANGED <<gpsArgs, gpsResult, imgArg, imgResult, request, response,
                 draws, entity>>

\* _analyze_maturity: random.seed(seed)
SeedGenerator(t) ==
    /\ th[t].pc = "seed"
    /\ Runnable(t)
    /\ rng' = SeedState(SeedOf(th[t].image, th[t].gps))
    /\ th' = [th EXCEPT ![t].pc = "m_level"]
    /\ UNCHANGED <<gpsArgs, gpsResult, imgArg, imgResult, request, response,
                 draws, entity>>

\* one draw by thread t: the generator moves on, and the thread continues as
\* r, the record computed from the value drawn
Drawn(t, r) ==
    /\ Runnable(t)
    /\ rng' = Advance(rng)
    /\ th' = [th EXCEPT ![t] = r]
    /\ UNCHANGED <<gpsArgs, gpsResult, imgArg, imgResult, request, response,
                 draws, entity>>

\* level, atr, pol, brix = random.choices(maturity_levels, weights=weights)[0]
ChooseLevel(t) ==
    /\ th[t].pc = "m_level"
    /\ Drawn(t, LET r == th[t]
                     u == Advance(rng)
                 IN  [r EXCEPT !.pc = "m_atr",
                                 !.loc.level = WeightedIndex(u),
                                 !.loc.atr = maturity_levels[WeightedIndex(u)].atr,
                                 !.loc.pol = maturity_levels[WeightedIndex(u)].pol,
                                 !.loc.brix = maturity_levels[WeightedIndex(u)].brix])

\* atr += random.uniform(-0.5, 0.5)
JitterAtr(t) ==
    /\ th[t].pc = "m_atr"
    /\ Drawn(t, LET r == th[t]
                     u == Advance(rng)
                 IN  [r EXCEPT !.pc = "m_pol", !.loc.atr = Jitter(@, u)])

\* pol += random.uniform(-0.5, 0.5)
JitterPol(t) ==
    /\ th[t].pc = "m_pol"
    /\ Drawn(t, LET r == th[t]
                     u == Advance(rng)
                 IN  [r EXCEPT !.pc = "m_brix", !.loc.pol = Jitter(@, u)])

\* brix += random.uniform(-0.5, 0.5)
JitterBrix(t) ==
    /\ th[t].pc = "m_brix"
    /\ Drawn(t, LET r == th[t]
                     u == Advance(rng)
                 IN  [r EXCEPT !.pc = "m_conf", !.loc.brix = Jitter(@, u)])

\* MaturityAnalysis(level=, confidence=round(.., 3), estimated_atr=round(.., 1), ..)
MaturityOf(loc, u) ==
    [level |-> maturity_levels[loc.level].level,
     confidence |-> RoundTo(Uniform(7500, 9500, u), 10),
     estimated_atr |-> RoundTo(loc.atr, 1000),
     estimated_pol |-> RoundTo(loc.pol, 1000),
     estimated_brix |-> RoundTo(loc.brix, 1000)]

\* confidence = random.uniform(0.75, 0.95); the model is built and returned
MaturityConfidence(t) ==
    /\ th[t].pc = "m_conf"
    /\ Drawn(t, LET r == th[t]
                     u == Advance(rng)
                 IN  IF MaturityAnalysisOk(MaturityOf(r.loc, u))
                 THEN [r EXCEPT !.pc = "p_gate", !.loc = NoLocals,
                                !.maturity = <<MaturityOf(r.loc, u)>>]
                 ELSE Raised(Raise("ValidationError", "MaturityAnalysis")))

\* faulty variant: _detect_pests starts with random.seed(int(start_time)): the
\* draws of the pest and disease steps follow the clock, not the inputs
PestGateReseeded(t) ==
    /\ th[t].pc = "p_gate"
    /\ Runnable(t)
    /\ rng' = Advance(SeedState(th[t].start_time))
    /\ th' = [th EXCEPT ![t].pc =
                 IF Exceeds(Advance(SeedState(th[t].start_time)), 90)
                 THEN "p_type" ELSE "d_gate"]
    /\ UNCHANGED <<gpsArgs, gpsResult, imgArg, imgResult, request, response,
                 draws, entity>>

\* faulty variant: _detect_pests seeds the generator again, with the seed of
\* the request, before its first draw
PestGateSeededAgain(t) ==
    /\ th[t].pc = "p_gate"
    /\ Runnable(t)
    /\ rng' = Advance(SeedState(SeedOf(th[t].image, th[t].gps)))
    /\ th' = [th EXCEPT ![t].pc =
                 IF Exceeds(Advance(SeedState(SeedOf(th[t].image, th[t].gps))), 90)
                 THEN "p_type" ELSE "d_gate"]
    /\ UNCHANGED <<gpsArgs, gpsResult, imgArg, imgResult, request, response,
                   draws, entity>>

\* _detect_pests: if random.random() > 0.9
PestGate(t) ==
    /\ th[t].pc = "p_gate"
    /\ Drawn(t, LET r == th[t]
                     u == Advance(rng)
                 IN  [r EXCEPT !.pc = IF Exceeds(u, 90) THEN "p_type" ELSE "d_gate"])

\* pest_type, severity = random.choice(pest_types)
PestType(t) ==
    /\ th[t].pc = "p_type"
    /\ Drawn(t, LET r == th[t]
                     u == Advance(rng)
                 IN  [r EXCEPT !.pc = "p_x1", !.loc.kind = ChoiceIndex(4, u)])

\* x1 = random.uniform(0.1, 0.5)
PestX1(t) ==
    /\ th[t].pc = "p_x1"
    /\ Drawn(t, LET r == th[t]
                     u == Advance(rng)
                 IN  [r EXCEPT !.pc = "p_y1", !.loc.x1 = Uniform(1000, 5000, u)])

\* y1 = random.uniform(0.1, 0.5)
PestY1(t) ==
    /\ th[t].pc = "p_y1"
    /\ Drawn(t, LET r == th[t]
                     u == Advance(rng)
                 IN  [r EXCEPT !.pc = "p_x2", !.loc.y1 = Uniform(1000, 5000, u)])

\* x2 = x1 + random.uniform(0.1, 0.3)
PestX2(t) ==
    /\ th[t].pc = "p_x2"
    /\ Drawn(t, LET r == th[t]
                     u == Advance(rng)
                 IN  [r EXCEPT !.pc = "p_y2",
                                 !.loc.x2 = r.loc.x1 + Uniform(1000, 3000, u)])

\* y2 = y1 + random.uniform(0.1, 0.3)
PestY2(t) ==
    /\ th[t].pc = "p_y2"
    /\ Drawn(t, LET r == th[t]
                     u == Advance(rng)
                 IN  [r EXCEPT !.pc = "p_conf",
                                 !.loc.y2 = r.loc.y1 + Uniform(1000, 3000, u)])

\* faulty variant: confidence=round(random.uniform(0.7, 1.0), 3)
PestOfWide(loc, u) ==
    [pest_type |-> pest_types[loc.kind].type,
     confidence |-> RoundTo(Uniform(7000, 10000, u), 10),
     severity |-> pest_types[loc.kind].severity,
     bounding_box |-> <<loc.x1, loc.y1, loc.x2, loc.y2>>]

\* PestDetection(pest_type=, confidence=round(random.uniform(0.7, 0.9), 3), ..)
PestOf(loc, u) ==
    [pest_type |-> pest_types[loc.kind].type,
     confidence |-> RoundTo(Uniform(7000, 9000, u), 10),
     severity |-> pest_types[loc.kind].severity,
     bounding_box |-> <<loc.x1, loc.y1, loc.x2, loc.y2>>]

PestConfidence(t) ==
    /\ th[t].pc = "p_conf"
    /\ Drawn(t, LET r == th[t]
                     u == Advance(rng)
                 IN  IF PestDetectionOk(PestOf(r.loc, u))
                 THEN [r EXCEPT !.pc = "d_gate", !.loc = NoLocals,
                                !.pests = <<PestOf(r.loc, u)>>]
                 ELSE Raised(Raise("ValidationError", "PestDetection")))

\* _detect_diseases: if random.random() > 0.95
DiseaseGate(t) ==
    /\ th[t].pc = "d_gate"
    /\ Drawn(t, LET r == th[t]
                     u == Advance(rng)
                 IN  [r EXCEPT !.pc = IF Exceeds(u, 95) THEN "d_type" ELSE "assemble"])

\* disease_type, severity = random.choice(disease_types)
DiseaseType(t) ==
    /\ th[t].pc = "d_type"
    /\ Drawn(t, LET r == th[t]
                     u == Advance(rng)
                 IN  [r EXCEPT !.pc = "d_conf", !.loc.kind = ChoiceIndex(4, u)])

\* confidence=round(random.uniform(0.65, 0.85), 3)
DiseaseConfidence(t) ==
    /\ th[t].pc = "d_conf"
    /\ Drawn(t, LET r == th[t]
                     u == Advance(rng)
                 IN  [r EXCEPT !.pc = "d_area",
                                 !.loc.conf = RoundTo(Uniform(6500, 8500, u), 10)])

\* DiseaseDetection(.., affected_area_pct=round(random.uniform(5.0, 25.0), 1))
DiseaseOf(loc, u) ==
    [disease_type |-> disease_types[loc.kind].type,
     confidence |-> loc.conf,
     severity |-> disease_types[loc.kind].severity,
     affected_area_pct |-> RoundTo(Uniform(50000, 250000, u), 1000)]

DiseaseArea(t) ==
    /\ th[t].pc = "d_area"
    /\ Drawn(t, LET r == th[t]
                     u == Advance(rng)
                 IN  IF DiseaseDetectionOk(DiseaseOf(r.loc, u))
                 THEN [r EXCEPT !.pc = "assemble", !.loc = NoLocals,
                                !.diseases = <<DiseaseOf(r.loc, u)>>]
                 ELSE Raised(Raise("ValidationError", "DiseaseDetection")))

\* processing_time_ms = (time.time() - start_time) * 1000, then the report
ReportOf(r, now) ==
    [image_id |-> r.image_id, gps |-> r.gps, timestamp |-> r.timestamp,
     maturity |-> r.maturity[1], pests |-> r.pests, diseases |-> r.diseases,
     processing_time_ms |-> (now - r.start_time) * 1000,
     model_version |-> r.model_version]

\* time.time() is the wall clock: the second reading is any clock value, also
\* one before start_time when the clock was set back in between
Assemble(t) ==
    /\ th[t].pc = "assemble"
    /\ Runnable(t)
    /\ \E now \in Times :
          th' = [th EXCEPT ![t] =
                    IF VisionAnalysisResponseOk(ReportOf(th[t], now))
                    THEN [@ EXCEPT !.pc = "done", !.start_time = 0,
                                   !.result = <<ReportOf(th[t], now)>>]
                    ELSE Raised(Raise("ValidationError",
                                      "VisionAnalysisResponse"))]
    /\ UNCHANGED <<rng, gpsArgs, gpsResult, imgArg, imgResult, request, response,
                 draws, entity>>

Step(t) ==
    \/ Validate(t)
    \/ SeedGenerator(t)
    \/ ChooseLevel(t)
    \/ JitterAtr(t)
    \/ JitterPol(t)
    \/ JitterBrix(t)
    \/ MaturityConfidence(t)
    \/ PestGate(t)
    \/ PestType(t)
    \/ PestX1(t)
    \/ PestY1(t)
    \/ PestX2(t)
    \/ PestY2(t)
    \/ PestConfidence(t)
    \/ DiseaseGate(t)
    \/ DiseaseType(t)
    \/ DiseaseConfidence(t)
    \/ DiseaseArea(t)
    \/ Assemble(t)

\* a caller that waits for the running call to return before the next one
CallInTurn(t) ==
    /\ \A o \in Threads : AtRest(o)
    /\ Call(t)

Init ==
    /\ rng \in Units
    /\ th = [t \in Threads |-> Idle]
    /\ gpsArgs = <<-211234, -475678, <<>>>>
    /\ gpsResult = GPSCoordinates(-211234, -475678, <<>>)
    /\ imgArg = Img("JPEG", 640, 480)
    /\ imgResult = _validate_image(Img("JPEG", 640, 480))
    /\ request = <<>>
    /\ response = <<>>
    /\ draws = NoDraws
    /\ entity = NoEntity

\* calls made one after the other
Next == \E t \in Threads : CallInTurn(t) \/ Step(t)

Spec == Init /\ [][Next]_vars

\* two threads that each call analyze_image once, at the same time: thread 1
\* is preempted, before any one of its steps, by the call of thread 2
ConcImages == {Img("JPEG", 640, 480), Img("PNG", 224, 4096), Img("BMP", 640, 480)}
ConcPoints == {Gps(-211234, -475678, <<>>)}
ConcCaptures == {[image_id |-> "img_001.jpg", timestamp |-> "2026-02-20T10:30:00"]}

CallOnce(t) ==
    /\ th[t].pc = "idle"
    /\ CallWith(t, ConcImages, ConcPoints, ConcCaptures, {0})

NextConc == \E t \in Threads : CallOnce(t) \/ Step(t)

SpecConc == Init /\ [][NextConc]_vars

(***************************************************************************)
(* What one call returns when nothing else touches the generator: the      *)
(* draws are the outputs, in order, of the generator seeded for the call   *)
(***************************************************************************)
\* a call draws at most 5 times for the maturity, 7 for a pest, 4 for a disease
MaxDraws == 5 + 7 + 4

\* the generator state k draws after state s
AdvanceBy[k \in 0 .. MaxDraws] ==
    [s \in Units |-> IF k = 0 THEN s ELSE Advance(AdvanceBy[k - 1][s])]

\* the k-th draw after random.seed(seed)
Output(seed, k) == AdvanceBy[k][SeedState(seed)]

\* _analyze_maturity after the seeding, as a function of the five values
\* u[1..5] it draws, in order: the MaturityAnalysis it builds
_analyze_maturity(u) ==
    LET lv == maturity_levels[WeightedIndex(u[1])]
        loc == [NoLocals EXCEPT !.level = WeightedIndex(u[1]),
                                !.atr = Jitter(lv.atr, u[2]),
                                !.pol = Jitter(lv.pol, u[3]),
                                !.brix = Jitter(lv.brix, u[4])]
    IN  MaturityOf(loc, u[5])

\* faulty variant: the anchor is drawn from [0.1, 0.9]
DetectPestsWideAnchor(u) ==
    IF Exceeds(u[1], 90)
    THEN LET x1 == Uniform(1000, 9000, u[3])
             y1 == Uniform(1000, 9000, u[4])
             loc == [NoLocals EXCEPT
                        !.kind = ChoiceIndex(4, u[2]),
                        !.x1 = x1, !.y1 = y1,
                        !.x2 = x1 + Uniform(1000, 3000, u[5]),
                        !.y2 = y1 + Uniform(1000, 3000, u[6])]
         IN  <<PestOf(loc, u[7])>>
    ELSE <<>>

\* faulty variant: the second corner is drawn on its own, x2 and y2 from
\* [0.2, 0.8], not as an offset from the first
DetectPestsFreeCorner(u) ==
    IF Exceeds(u[1], 90)
    THEN LET loc == [NoLocals EXCEPT
                        !.kind = ChoiceIndex(4, u[2]),
                        !.x1 = Uniform(1000, 5000, u[3]),
                        !.y1 = Uniform(1000, 5000, u[4]),
                        !.x2 = Uniform(2000, 8000, u[5]),
                        !.y2 = Uniform(2000, 8000, u[6])]
         IN  <<PestOf(loc, u[7])>>
    ELSE <<>>

\* _detect_pests as a function of the values u[1..7] it draws (u[1] alone when
\* the gate is not passed): the list it builds
_detect_pests(u) ==
    IF Exceeds(u[1], 90)
    THEN LET x1 == Uniform(1000, 5000, u[3])
             y1 == Uniform(1000, 5000, u[4])
             loc == [NoLocals EXCEPT
                        !.kind = ChoiceIndex(4, u[2]),
                        !.x1 = x1, !.y1 = y1,
                        !.x2 = x1 + Uniform(1000, 3000, u[5]),
                        !.y2 = y1 + Uniform(1000, 3000, u[6])]
         IN  <<PestOf(loc, u[7])>>
    ELSE <<>>

\* faulty variant: the disease gate is the pest gate, random.random() > 0.9
DetectDiseasesAtPestGate(u) ==
    IF Exceeds(u[1], 90)
    THEN LET loc == [NoLocals EXCEPT
                        !.kind = ChoiceIndex(4, u[2]),
                        !.conf = RoundTo(Uniform(6500, 8500, u[3]), 10)]
         IN  <<DiseaseOf(loc, u[4])>>
    ELSE <<>>

\* _detect_diseases as a function of the values u[1..4] it draws
_detect_diseases(u) ==
    IF Exceeds(u[1], 95)
    THEN LET loc == [NoLocals EXCEPT
                        !.kind = ChoiceIndex(4, u[2]),
                        !.conf = RoundTo(Uniform(6500, 8500, u[3]), 10)]
         IN  <<DiseaseOf(loc, u[4])>>
    ELSE <<>>

AloneMaturity(seed) == _analyze_maturity([i \in 1 .. 5 |-> Output(seed, i)])

AlonePests(seed) == _detect_pests([i \in 1 .. 7 |-> Output(seed, 5 + i)])

AloneDiseases(seed) ==
    LET k == IF AlonePests(seed) = <<>> THEN 6 ELSE 12
    IN  _detect_diseases([i \in 1 .. 4 |-> Output(seed, k + i)])

(***************************************************************************)
(* Claims                                                                  *)
(***************************************************************************)
Done(t) == th[t].pc = "done"
Report(t) == th[t].result[1]

SameSeedInputs(a, b) ==
    /\ th[a].image.width = th[b].image.width
    /\ th[a].image.height = th[b].image.height
    /\ th[a].gps.lat = th[b].gps.lat
    /\ th[a].gps.lon = th[b].gps.lon

SameInputs(a, b) ==
    /\ th[a].image = th[b].image
    /\ th[a].image_id = th[b].image_id
    /\ th[a].gps = th[b].gps
    /\ th[a].timestamp = th[b].timestamp
    /\ th[a].model_version = th[b].model_version

\* C1: two calls made one after the other with the same image width, image
\* height, latitude and longitude return the same maturity level,
\* estimated_atr, estimated_pol, estimated_brix and confidence, whatever calls
\* ran before or between them and whatever state the generator started in.
C1_MaturityDeterministic ==
    \A a, b \in Threads :
        (Done(a) /\ Done(b) /\ SameSeedInputs(a, b))
            => Report(a).maturity = Report(b).maturity

\* two returned calls with the same width, height, latitude and longitude
\* that differ in image identifier and altitude
C1_Witness ==
    \E a, b \in Threads :
        /\ a # b /\ Done(a) /\ Done(b) /\ SameSeedInputs(a, b)
        /\ th[a].image_id # th[b].image_id
        /\ th[a].gps.altitude # th[b].gps.altitude

\* C2 as stated: two calls with identical inputs return reports that are
\* equal in every field.
C2_FullReportEqual ==
    \A a, b \in Threads :
        (Done(a) /\ Done(b) /\ SameInputs(a, b)) => Report(a) = Report(b)

\* C2: two calls with identical inputs return reports that are equal in every
\* field but processing_time_ms (the maturity block, the pests list, the
\* diseases list and the echoed inputs are equal).
C2_ReportEqualButTime ==
    \A a, b \in Threads :
        (Done(a) /\ Done(b) /\ SameInputs(a, b))
            => [Report(a) EXCEPT !.processing_time_ms = 0]
                 = [Report(b) EXCEPT !.processing_time_ms = 0]

\* two returned calls with identical inputs, a pest and a disease detected
C2_Witness ==
    \E a, b \in Threads :
        /\ a # b /\ Done(a) /\ Done(b) /\ SameInputs(a, b)
        /\ Report(a).pests # <<>>
        /\ Report(a).diseases # <<>>

\* C3: a call that runs concurrently with another returns the maturity, pests
\* and diseases it returns when it runs alone with the same inputs.
C3_SameAsAlone ==
    \A t \in Threads :
        Done(t) =>
            LET seed == SeedOf(th[t].image, th[t].gps)
            IN  /\ Report(t).maturity = AloneMaturity(seed)
                /\ Report(t).pests = AlonePests(seed)
                /\ Report(t).diseases = AloneDiseases(seed)

ValidationHeads ==
    {"Unsupported image format", "Image too small", "Image too large"}

\* C7: once _validate_image has accepted the image, analyze_image never
\* fails: the only errors it raises are those of _validate_image.
C7_NeverFailsOnceValidated ==
    \A t \in Threads :
        th[t].pc = "raised" => th[t].error.head \in ValidationHeads

\* C8: a call whose image fails validation ends at the validation step with
\* that error and without a report, complete or partial, and neither its
\* entry nor its validation step changes the generator.
C8_FailedValidationLeavesGenerator ==
    [][\A t \in Threads :
          /\ (AtRest(t) /\ th'[t].pc = "validate") => rng' = rng
          /\ (/\ th[t].pc = "validate"
              /\ _validate_image(th[t].image) # NoError
              /\ th'[t] # th[t])
                => /\ th'[t].pc = "raised"
                   /\ th'[t].error = _validate_image(th[t].image)
                   /\ th'[t].result = <<>>
                   /\ th'[t].maturity = <<>>
                   /\ th'[t].pests = <<>>
                   /\ th'[t].diseases = <<>>
                   /\ rng' = rng]_vars

\* a call has failed validation after another call had used the generator
C8_Witness ==
    \E a, b \in Threads :
        /\ th[a].pc = "raised"
        /\ th[a].error.head \in ValidationHeads
        /\ Done(b)

(***************************************************************************)
(* _validate_image and GPSCoordinates on their own, over inputs around     *)
(* every limit                                                             *)
(***************************************************************************)
Formats == {"JPEG", "PNG", "BMP", "GIF"}
Sizes == {1, 100, 223, 224, 225, 640, 4095, 4096, 4097, 5000}

ValidateImage ==
    /\ \E f \in Formats, w \in Sizes, h \in Sizes :
          /\ imgArg' = Img(f, w, h)
          /\ imgResult' = _validate_image(Img(f, w, h))
    /\ UNCHANGED <<rng, th, gpsArgs, gpsResult, request, response, draws, entity>>

\* the generator plays no part in a validation: one generator state is enough
InitPure == Init /\ rng = 0

SpecValidate == InitPure /\ [][ValidateImage]_vars

Latitudes == {-340001, -340000, -211234, -10000, -9999, 0}
Longitudes == {-740001, -740000, -475678, -320000, -319999, -200000}
Altitudes == {<<>>, <<-1>>, <<0>>, <<5800000>>, <<30000000>>, <<30000001>>}

ConstructGps ==
    /\ \E lat \in Latitudes, lon \in Longitudes, altitude \in Altitudes :
          /\ gpsArgs' = <<lat, lon, altitude>>
          /\ gpsResult' = GPSCoordinates(lat, lon, altitude)
    /\ UNCHANGED <<rng, th, imgArg, imgResult, request, response,
                 draws, entity>>

SpecGps == InitPure /\ [][ConstructGps]_vars

\* C5: _validate_image accepts an image if and only if its format is JPEG or
\* PNG and its width and height both lie in [224, 4096]; every other image
\* raises a ValueError.
C5_AcceptsIffInRange ==
    /\ imgResult = NoError
         <=> /\ imgArg.format \in {"JPEG", "PNG"}
             /\ 224 <= imgArg.width /\ imgArg.width <= 4096
             /\ 224 <= imgArg.height /\ imgArg.height <= 4096
    /\ imgResult # NoError => imgResult.cls = "ValueError"

\* an image of exactly 224 by 4096 pixels has been accepted
C5_Witness ==
    /\ imgArg.width = 224 /\ imgArg.height = 4096
    /\ imgResult = NoError

\* C6 as stated: a dimension below 224 gives "Image too small", a dimension
\* above 4096 gives "Image too large", a format other than JPEG and PNG gives
\* "Unsupported image format".
C6_MessagePerViolation ==
    /\ (imgArg.width < 224 \/ imgArg.height < 224)
          => imgResult.head = "Image too small"
    /\ (imgArg.width > 4096 \/ imgArg.height > 4096)
          => imgResult.head = "Image too large"
    /\ imgArg.format \notin {"JPEG", "PNG"}
          => imgResult.head = "Unsupported image format"

\* C6: a format other than JPEG and PNG gives "Unsupported image format"; a
\* JPEG or PNG image with a dimension below 224 gives "Image too small"; a
\* JPEG or PNG image with no dimension below 224 and a dimension above 4096
\* gives "Image too large".
C6_MessageOfFirstViolation ==
    /\ imgArg.format \notin {"JPEG", "PNG"}
          => imgResult.head = "Unsupported image format"
    /\ (/\ imgArg.format \in {"JPEG", "PNG"}
        /\ (imgArg.width < 224 \/ imgArg.height < 224))
          => imgResult.head = "Image too small"
    /\ (/\ imgArg.format \in {"JPEG", "PNG"}
        /\ imgArg.width >= 224 /\ imgArg.height >= 224
        /\ (imgArg.width > 4096 \/ imgArg.height > 4096))
          => imgResult.head = "Image too large"

\* a JPEG with one dimension below 224 and the other above 4096 was rejected
C6_Witness ==
    /\ imgArg.format = "JPEG"
    /\ imgArg.width < 224 /\ imgArg.height > 4096
    /\ imgResult.head = "Image too small"

\* C9: GPSCoordinates is constructed if and only if latitude is in [-34, -1],
\* longitude in [-74, -32] and altitude absent or in [0, 3000]; otherwise a
\* validation error is raised and no value exists.
C9_GpsConstructedIffInRange ==
    LET lat == gpsArgs[1]
        lon == gpsArgs[2]
        altitude == gpsArgs[3]
        valid == /\ -340000 <= lat /\ lat <= -10000
                 /\ -740000 <= lon /\ lon <= -320000
                 /\ (altitude = <<>>
                       \/ (0 <= altitude[1] /\ altitude[1] <= 30000000))
    IN  /\ gpsResult.ok <=> valid
        /\ valid => gpsResult.value =
                      <<[lat |-> lat, lon |-> lon, altitude |-> altitude]>>
        /\ ~valid => (gpsResult.value = <<>> /\ gpsResult.msgs # {})

\* latitude 0.0 with a valid longitude has been rejected
C9_Witness ==
    /\ gpsArgs[1] = 0 /\ gpsArgs[2] = -475678 /\ gpsArgs[3] = <<>>
    /\ ~gpsResult.ok

\* C10: a latitude outside [-34, -1] raises an error whose message contains
\* "Latitude must be between", a longitude outside [-74, -32] one whose
\* message contains "Longitude must be between".
C10_ValidatorMessageSeen ==
    /\ ~(-340000 <= gpsArgs[1] /\ gpsArgs[1] <= -10000)
          => "Latitude must be between" \in gpsResult.msgs
    /\ ~(-740000 <= gpsArgs[2] /\ gpsArgs[2] <= -320000)
          => "Longitude must be between" \in gpsResult.msgs

(***************************************************************************)
(* api.py: POST /analyze.  The handler runs on the event loop and does not *)
(* await between its checks and the analyzer's return, so one request is   *)
(* one step.                                                               *)
(***************************************************************************)
MaxUploadBytes == MaxUploadMB * 1024 * 1024

\* an upload: its length in bytes and what Image.open makes of it (<<>> when
\* the bytes are no image)
Upload(n, image) == [len |-> n, image |-> image]

Uploads ==
    { Upload(0, <<>>),
      Upload(1000, <<>>),
      Upload(1000, <<Img("JPEG", 640, 480)>>),
      Upload(1000, <<Img("BMP", 640, 480)>>),
      Upload(1000, <<Img("JPEG", 100, 100)>>),
      Upload(MaxUploadBytes, <<Img("PNG", 224, 4096)>>),
      Upload(MaxUploadBytes + 1, <<Img("JPEG", 640, 480)>>) }

ContentTypes == {"image/jpeg", "text/plain"}

\* the form's timestamp: absent (<<>>), empty, ISO 8601, or something else
TimestampFields ==
    {<<>>, <<"">>, <<"2026-02-20T10:30:00Z">>, <<"20/02/2026">>}

FormPoints == {<<-211234, -475678, <<5800000>>>>, <<0, -475678, <<>>>>}

Requests ==
    [content_type : ContentTypes, upload : Uploads, image_id : {"img_001.jpg"},
     point : FormPoints, timestamp : TimestampFields]

\* faulty variant: datetime.fromisoformat(timestamp.replace('Z', '')): the
\* offset is dropped
FromIsoFormatNaive(text) ==
    IF text = "2026-02-20T10:30:00Z" \/ text = "2026-02-20T10:30:00"
    THEN [ok |-> TRUE, value |-> "2026-02-20T10:30:00"]
    ELSE [ok |-> FALSE, value |-> ""]

\* datetime.fromisoformat(timestamp.replace('Z', '+00:00'))
FromIsoFormat(text) ==
    IF text = "2026-02-20T10:30:00Z"
    THEN [ok |-> TRUE, value |-> "2026-02-20T10:30:00+00:00"]
    ELSE IF text = "2026-02-20T10:30:00"
    THEN [ok |-> TRUE, value |-> "2026-02-20T10:30:00"]
    ELSE [ok |-> FALSE, value |-> ""]

\* datetime.utcnow() when the clock reads k
UtcNow(k) == <<"utcnow", k>>

\* Form(..., ge=, le=) of lat, lon and altitude: FastAPI validates the form
\* before it calls the handler
FormOk(req) ==
    /\ FieldRange(req.point[1], LatMin, LatMax) = ""
    /\ FieldRange(req.point[2], LonMin, LonMax) = ""
    /\ AltField(req.point[3]) = ""

\* the number of draws of a call that nothing interrupts
DrawsOf(seed) ==
    7 + (IF AlonePests(seed) = <<>> THEN 0 ELSE 6)
      + (IF AloneDiseases(seed) = <<>> THEN 0 ELSE 3)

\* analyzer.analyze_image_bytes(...) as one step: what it raises or returns,
\* and the generator it leaves
AnalyzeImageBytes(upload, image_id, gps, timestamp, g, start, now) ==
    IF upload.image = <<>>
    THEN [error |-> Raise("UnidentifiedImageError", "cannot identify image file"),
          result |-> <<>>, rng |-> g]
    ELSE IF _validate_image(upload.image[1]) # NoError
    THEN [error |-> _validate_image(upload.image[1]), result |-> <<>>, rng |-> g]
    ELSE LET seed == SeedOf(upload.image[1], gps)
             report ==
                 [image_id |-> image_id, gps |-> gps, timestamp |-> timestamp,
                  maturity |-> AloneMaturity(seed), pests |-> AlonePests(seed),
                  diseases |-> AloneDiseases(seed),
                  processing_time_ms |-> (now - start) * 1000,
                  model_version |-> "placeholder-v0.1"]
         IN  IF VisionAnalysisResponseOk(report)
             THEN [error |-> NoError, result |-> <<report>>,
                   rng |-> Output(seed, DrawsOf(seed))]
             ELSE [error |-> Raise("ValidationError", "VisionAnalysisResponse"),
                   result |-> <<>>, rng |-> Output(seed, DrawsOf(seed))]

\* faulty variant: the payload is read and measured before the content type
\* is looked at
TryBodyReadFirst(req, g, start, now) ==
    LET stay(e) == [error |-> e, result |-> <<>>, rng |-> g]
        made == GPSCoordinates(req.point[1], req.point[2], req.point[3])
        parsed == IF req.timestamp = <<>> \/ req.timestamp = <<"">>
                  THEN [ok |-> TRUE, value |-> UtcNow(start)]
                  ELSE [ok |-> FromIsoFormat(req.timestamp[1]).ok,
                        value |-> <<FromIsoFormat(req.timestamp[1]).value, 0>>]
    IN  IF req.upload.len = 0
        THEN stay(HTTPException(400, "Empty image file"))
        ELSE IF req.upload.len > MaxUploadBytes
        THEN stay(HTTPException(413, "Image file too large. Maximum 10MB."))
        ELSE IF req.content_type \notin {"image/jpeg", "image/png"}
        THEN stay(HTTPException(400, "Invalid image format"))
        ELSE IF ~parsed.ok
        THEN stay(HTTPException(400, "Invalid timestamp format"))
        ELSE IF ~made.ok
        THEN stay(Raise("ValidationError", "validation error for GPSCoordinates"))
        ELSE AnalyzeImageBytes(req.upload, req.image_id, made.value[1],
                               parsed.value, g, start, now)

\* the body of the handler's try block
TryBody(req, g, start, now) ==
    LET stay(e) == [error |-> e, result |-> <<>>, rng |-> g]
        made == GPSCoordinates(req.point[1], req.point[2], req.point[3])
        parsed == IF req.timestamp = <<>> \/ req.timestamp = <<"">>
                  THEN [ok |-> TRUE, value |-> UtcNow(start)]
                  ELSE [ok |-> FromIsoFormat(req.timestamp[1]).ok,
                        value |-> <<FromIsoFormat(req.timestamp[1]).value, 0>>]
    IN  IF req.content_type \notin {"image/jpeg", "image/png"}
        THEN stay(HTTPException(400, "Invalid image format"))
        ELSE IF req.upload.len = 0
        THEN stay(HTTPException(400, "Empty image file"))
        ELSE IF req.upload.len > MaxUploadBytes
        THEN stay(HTTPException(413, "Image file too large. Maximum 10MB."))
        ELSE IF ~parsed.ok
        THEN stay(HTTPException(400, "Invalid timestamp format"))
        ELSE IF ~made.ok
        THEN stay(Raise("ValidationError", "validation error for GPSCoordinates"))
        ELSE AnalyzeImageBytes(req.upload, req.image_id, made.value[1],
                               parsed.value, g, start, now)

\* str(e): an HTTPException prints as "<status_code>: <detail>", any other
\* exception as its message
Str(e) ==
    IF e.cls = "HTTPException" THEN ToString(e.status) \o ": " \o e.head
    ELSE e.head

\* the handler's except clauses: `except ValueError` first, then
\* `except Exception`, around everything the try block raises
ExceptClauses(e) ==
    IF IsValueError(e)
    THEN HTTPException(400, Str(e))
    ELSE HTTPException(500, "Internal server error during image analysis: "
                                \o Str(e))

\* http_exception_handler: the error envelope
ErrorEnvelope(e, now) ==
    [status |-> e.status, kind |-> "error", error |-> e.head,
     status_code |-> e.status, timestamp |-> UtcNow(now), report |-> <<>>]

\* what the client receives, given what the try block did.  A form field that
\* fails its Form(...) constraints never reaches the handler: FastAPI answers
\* 422 with its own body, {"detail": [...]}, which http_exception_handler
\* (registered for HTTPException) does not build.  kind is the shape of the
\* body: "report", "error" (the envelope) or "detail".
Respond(req, out, now) ==
    IF ~FormOk(req)
    THEN [status |-> 422, kind |-> "detail", error |-> "", status_code |-> 0,
          timestamp |-> <<>>, report |-> <<>>]
    ELSE IF out.error = NoError
    THEN [status |-> 200, kind |-> "report", error |-> "", status_code |-> 0,
          timestamp |-> <<>>, report |-> out.result]
    ELSE ErrorEnvelope(ExceptClauses(out.error), now)

PostAnalyze ==
    /\ \E req \in Requests, start \in Times, now \in Times :
          LET out == TryBody(req, rng, start, now)
          IN  /\ request' = <<req>>
              /\ response' = <<Respond(req, out, now)>>
              /\ rng' = IF FormOk(req) THEN out.rng ELSE rng
    /\ UNCHANGED <<th, gpsArgs, gpsResult, imgArg, imgResult, draws, entity>>

\* the server starts with the generator in one of two states
InitApi == Init /\ rng \in {0, RngMod - 1}

SpecApi == InitApi /\ [][PostAnalyze]_vars

Answered == request # <<>>
Req == request[1]
Resp == response[1]

\* C4: an unsupported content type, an empty payload and a malformed timestamp
\* are answered 400, an oversized payload 413, a ValueError of image or GPS
\* validation 400; none of them is answered 500.
C4_ClientErrorsAreNot500 ==
    Answered /\ FormOk(Req) =>
        /\ Req.content_type = "text/plain" => Resp.status = 400
        /\ (Req.content_type # "text/plain" /\ Req.upload.len = 0)
              => Resp.status = 400
        /\ (Req.content_type # "text/plain" /\ Req.upload.len > MaxUploadBytes)
              => Resp.status = 413
        /\ (/\ Req.content_type # "text/plain"
            /\ Req.upload.len \in 1 .. MaxUploadBytes
            /\ Req.timestamp = <<"20/02/2026">>)
              => Resp.status = 400
        /\ (/\ Req.content_type # "text/plain"
            /\ Req.upload.len \in 1 .. MaxUploadBytes
            /\ Req.timestamp # <<"20/02/2026">>
            /\ Req.upload.image # <<>>
            /\ _validate_image(Req.upload.image[1]) # NoError)
              => Resp.status = 400

(***************************************************************************)
(* The three steps of the analyzer on their own, each as a function of the *)
(* values it draws.  The first draw of a step ranges over the whole        *)
(* generator (maturity) or around the two gates (pests, diseases), the     *)
(* choice of a catalog entry over the quartiles, every other draw over the *)
(* two ends and the middle of [0, 1).                                      *)
(***************************************************************************)
Extremes == {0, RngMod \div 2, RngMod - 1}
Quartiles == {0, RngMod \div 4, RngMod \div 2, (3 * RngMod) \div 4, RngMod - 1}
GateDraws == {0, (9 * RngMod) \div 10, (9 * RngMod) \div 10 + 1,
              (19 * RngMod) \div 20, (19 * RngMod) \div 20 + 1, RngMod - 1}

MaturityDraws == Units \X Extremes \X Extremes \X Extremes \X Extremes
PestDraws ==
    GateDraws \X Quartiles \X Extremes \X Extremes \X Extremes \X Extremes
        \X Extremes
DiseaseDraws == GateDraws \X Quartiles \X Extremes \X Extremes

\* what the step hands back: the value built, or the error of the model that
\* refused it
Built(value, ok, model) ==
    IF ok THEN [value |-> value, error |-> NoError]
    ELSE [value |-> <<>>, error |-> Raise("ValidationError", model)]

AnalyzeMaturity ==
    /\ draws = NoDraws
    /\ \E u \in MaturityDraws :
          /\ draws' = [step |-> "_analyze_maturity", u |-> u]
          /\ entity' = Built(<<_analyze_maturity(u)>>,
                             MaturityAnalysisOk(_analyze_maturity(u)),
                             "MaturityAnalysis")
    /\ UNCHANGED <<rng, th, gpsArgs, gpsResult, imgArg, imgResult, request,
                   response>>

DetectPests ==
    /\ draws = NoDraws
    /\ \E u \in PestDraws :
          /\ draws' = [step |-> "_detect_pests", u |-> u]
          /\ entity' = Built(_detect_pests(u),
                             \A i \in 1 .. Len(_detect_pests(u)) :
                                 PestDetectionOk(_detect_pests(u)[i]),
                             "PestDetection")
    /\ UNCHANGED <<rng, th, gpsArgs, gpsResult, imgArg, imgResult, request,
                   response>>

DetectDiseases ==
    /\ draws = NoDraws
    /\ \E u \in DiseaseDraws :
          /\ draws' = [step |-> "_detect_diseases", u |-> u]
          /\ entity' = Built(_detect_diseases(u),
                             \A i \in 1 .. Len(_detect_diseases(u)) :
                                 DiseaseDetectionOk(_detect_diseases(u)[i]),
                             "DiseaseDetection")
    /\ UNCHANGED <<rng, th, gpsArgs, gpsResult, imgArg, imgResult, request,
                   response>>

NextDraws == AnalyzeMaturity \/ DetectPests \/ DetectDiseases

SpecDraws == InitPure /\ [][NextDraws]_vars

\* C11: every confidence of a returned entity lies in [0, 1]: the maturity
\* confidence in [0.75, 0.95], a pest detection's in [0.70, 0.90], a disease
\* detection's in [0.65, 0.85].
C11_ConfidenceRanges ==
    /\ draws.step = "_analyze_maturity" =>
          /\ entity.error = NoError
          /\ 7500 <= entity.value[1].confidence
          /\ entity.value[1].confidence <= 9500
    /\ draws.step = "_detect_pests" =>
          /\ entity.error = NoError
          /\ \A i \in 1 .. Len(entity.value) :
                /\ 7000 <= entity.value[i].confidence
                /\ entity.value[i].confidence <= 9000
    /\ draws.step = "_detect_diseases" =>
          /\ entity.error = NoError
          /\ \A i \in 1 .. Len(entity.value) :
                /\ 6500 <= entity.value[i].confidence
                /\ entity.value[i].confidence <= 8500

\* a pest detection was built from the largest value the generator yields
C11_Witness ==
    /\ draws.step = "_detect_pests"
    /\ draws.u[7] = RngMod - 1
    /\ entity.value # <<>>
    /\ entity.value[1].confidence > 8900

\* C12: every pest detection that _detect_pests builds carries a bounding box
\* of exactly four coordinates, each in [0, 1], and PestDetection never
\* refuses a generated box.
C12_BoxWithinUnitSquare ==
    draws.step = "_detect_pests" =>
        /\ entity.error.head # "PestDetection"
        /\ \A i \in 1 .. Len(entity.value) :
              LET box == entity.value[i].bounding_box
              IN  /\ Len(box) = 4
                  /\ \A k \in 1 .. 4 : 0 <= box[k] /\ box[k] <= Scale

\* a box was built from the largest anchor and the largest offsets
C12_Witness ==
    /\ draws.step = "_detect_pests"
    /\ \A k \in 3 .. 6 : draws.u[k] = RngMod - 1
    /\ entity.value # <<>>
    /\ entity.value[1].bounding_box[3] > 7500
    /\ entity.value[1].bounding_box[4] > 7500

\* C17: every pest detection has an ordered box that is not degenerate:
\* x2 > x1 and y2 > y1, with x2 - x1 and y2 - y1 each in [0.1, 0.3].
C17_BoxOrdered ==
    draws.step = "_detect_pests" =>
        \A i \in 1 .. Len(entity.value) :
            LET box == entity.value[i].bounding_box
            IN  /\ box[3] > box[1]
                /\ box[4] > box[2]
                /\ 1000 <= box[3] - box[1] /\ box[3] - box[1] <= 3000
                /\ 1000 <= box[4] - box[2] /\ box[4] - box[2] <= 3000

\* a box was built from the largest anchor and the smallest offsets
C17_Witness ==
    /\ draws.step = "_detect_pests"
    /\ draws.u[3] = RngMod - 1 /\ draws.u[4] = RngMod - 1
    /\ draws.u[5] = 0 /\ draws.u[6] = 0
    /\ entity.value # <<>>
    /\ entity.value[1].bounding_box[3] - entity.value[1].bounding_box[1] = 1000

(***************************************************************************)
(* Calls, one after the other, that vary everything but the image size and *)
(* the latitude and longitude: the encoding of the image, its identifier   *)
(* and capture time, the altitude, the analyzer's version and the clock    *)
(***************************************************************************)
VariedImages ==
    { Img("JPEG", 640, 480), Img("PNG", 640, 480),
      Img("JPEG", 224, 4096), Img("PNG", 224, 4096) }
VariedPoints ==
    { Gps(-211234, -475678, <<5800000>>), Gps(-211234, -475678, <<>>) }
VariedVersions == {"placeholder-v0.1", "placeholder-v0.2"}

CallVaried(t) ==
    /\ \A o \in Threads : AtRest(o)
    /\ CallAs(t, VariedImages, VariedPoints, Captures, VariedVersions, Times)

NextVaried == \E t \in Threads : CallVaried(t) \/ Step(t)

SpecVaried == Init /\ [][NextVaried]_vars

\* C13: two calls with the same image width and height and the same latitude
\* and longitude return the same maturity, pests and diseases, whatever
\* their image encoding, image identifier, timestamp, altitude, analyzer
\* version and time of call.
C13_DependsOnSizeAndPosition ==
    \A a, b \in Threads :
        (Done(a) /\ Done(b) /\ SameSeedInputs(a, b)) =>
            /\ Report(a).maturity = Report(b).maturity
            /\ Report(a).pests = Report(b).pests
            /\ Report(a).diseases = Report(b).diseases

\* two returned calls with the same size and position that differ in
\* everything else, a pest among their results
C13_Witness ==
    \E a, b \in Threads :
        /\ Done(a) /\ Done(b) /\ SameSeedInputs(a, b)
        /\ th[a].image.format # th[b].image.format
        /\ th[a].image_id # th[b].image_id
        /\ th[a].timestamp # th[b].timestamp
        /\ th[a].gps.altitude # th[b].gps.altitude
        /\ th[a].model_version # th[b].model_version
        /\ Report(a).processing_time_ms # Report(b).processing_time_ms
        /\ Report(a).pests # <<>>

\* C14 as stated: the maturity step, the pest step and the disease step of a
\* request each start from the generator freshly seeded with the request's
\* seed.
C14_ReseededBeforeEveryStep ==
    \A t \in Threads :
        th[t].pc \in {"m_level", "p_gate", "d_gate"} =>
            rng = Abs(SeedOf(th[t].image, th[t].gps)) % RngMod

\* C14: the generator is seeded once in a request, before the maturity step;
\* the pest step starts from the state the five draws of the maturity step
\* left, the disease step from the state the pest step left (one draw after
\* the maturity step without a pest, seven with one).
C14_SeededOncePerRequest ==
    \A t \in Threads :
        LET seed == SeedOf(th[t].image, th[t].gps)
        IN  /\ th[t].pc = "m_level" => rng = Abs(seed) % RngMod
            /\ th[t].pc = "p_gate" => rng = Output(seed, 5)
            /\ th[t].pc = "d_gate" =>
                  rng = Output(seed, IF th[t].pests = <<>> THEN 6 ELSE 12)

\* a request is about to start its disease step after it emitted a pest
C14_Witness ==
    \E t \in Threads : th[t].pc = "d_gate" /\ th[t].pests # <<>>

\* C15: a report echoes its inputs: image_id, gps (latitude, longitude,
\* altitude) and timestamp are those of the request and model_version is the
\* version the analyzer was built with; at the endpoint the timestamp is the
\* parsed ISO 8601 value when one is supplied, and the current UTC time when
\* the field is absent or empty.
C15_ReportEchoesInputs ==
    (Answered /\ Resp.status = 200) =>
        LET report == Resp.report[1]
        IN  /\ report.image_id = Req.image_id
            /\ report.gps = [lat |-> Req.point[1], lon |-> Req.point[2],
                             altitude |-> Req.point[3]]
            /\ report.model_version = "placeholder-v0.1"
            /\ Req.timestamp = <<"2026-02-20T10:30:00Z">>
                  => report.timestamp = <<"2026-02-20T10:30:00+00:00", 0>>
            /\ Req.timestamp \in {<<>>, <<"">>}
                  => \E k \in Times : report.timestamp = <<"utcnow", k>>

\* a request with an empty timestamp field and an altitude got a report
C15_Witness ==
    /\ Answered
    /\ Resp.status = 200
    /\ Req.timestamp = <<"">>
    /\ Req.point[3] # <<>>
    /\ Resp.report[1].timestamp[1] = "utcnow"

\* C16: every failure of /analyze is answered with the error envelope: the
\* message, the numeric status (equal to the HTTP status of the response) and
\* a timestamp; a failing request receives no report.
C16_FailuresUseEnvelope ==
    (Answered /\ Resp.status # 200) =>
        /\ Resp.kind = "error"
        /\ Resp.error # ""
        /\ Resp.status_code = Resp.status
        /\ Resp.timestamp # <<>>
        /\ Resp.report = <<>>

\* C18: the pests list and the diseases list have no entry or exactly one; a
\* pest is emitted exactly when the first draw of the step exceeds 0.9, a
\* disease exactly when it exceeds 0.95; the (type, severity) of an entry is
\* one of the four pairs of the pest catalog, respectively of the disease
\* catalog.
C18_AtMostOneFromCatalog ==
    /\ draws.step = "_detect_pests" =>
          /\ Len(entity.value) <= 1
          /\ Len(entity.value) = 1 <=> 10 * draws.u[1] > 9 * RngMod
          /\ \A i \in 1 .. Len(entity.value) :
                <<entity.value[i].pest_type, entity.value[i].severity>> \in
                    { <<"sugarcane_borer", "moderate">>, <<"spittlebug", "low">>,
                      <<"white_grub", "moderate">>, <<"aphid", "low">> }
    /\ draws.step = "_detect_diseases" =>
          /\ Len(entity.value) <= 1
          /\ Len(entity.value) = 1 <=> 20 * draws.u[1] > 19 * RngMod
          /\ \A i \in 1 .. Len(entity.value) :
                <<entity.value[i].disease_type, entity.value[i].severity>> \in
                    { <<"red_rot", "high">>, <<"smut", "moderate">>,
                      <<"rust", "low">>, <<"mosaic_virus", "moderate">> }

\* the disease step drew a value between the two gates and emitted nothing
C18_Witness ==
    /\ draws.step = "_detect_diseases"
    /\ 10 * draws.u[1] > 9 * RngMod
    /\ 20 * draws.u[1] <= 19 * RngMod
    /\ entity.value = <<>>
    /\ entity.error = NoError

\* C19: estimated_atr, estimated_pol and estimated_brix each differ by at most
\* 0.5 from the base estimate of the selected level, so estimated_atr lies in
\* [10.0, 14.5].
C19_IndicesNearBase ==
    draws.step = "_analyze_maturity" =>
        LET m == entity.value[1]
            base == [immature |-> <<105000, 120000, 140000>>,
                     early_maturity |-> <<125000, 145000, 160000>>,
                     ready_to_harvest |-> <<140000, 165000, 185000>>,
                     late_harvest |-> <<135000, 158000, 178000>>,
                     overripe |-> <<120000, 140000, 165000>>]
        IN  /\ entity.error = NoError
            /\ m.level \in DOMAIN base
            /\ Abs(m.estimated_atr - base[m.level][1]) <= 5000
            /\ Abs(m.estimated_pol - base[m.level][2]) <= 5000
            /\ Abs(m.estimated_brix - base[m.level][3]) <= 5000
            /\ 100000 <= m.estimated_atr /\ m.estimated_atr <= 145000

\* an immature reading was built from the smallest jitters: ATR 10.0
C19_Witness ==
    /\ draws.step = "_analyze_maturity"
    /\ draws.u[2] = 0 /\ draws.u[3] = 0 /\ draws.u[4] = 0
    /\ entity.value # <<>>
    /\ entity.value[1].level = "immature"
    /\ entity.value[1].estimated_atr = 100000

\* C20: the seed is trunc((latitude + longitude) * 1000) + width + height,
\* truncated toward zero; two calls with the same latitude + longitude and the
\* same width + height return the same maturity, pests and diseases.
C20_SeedFromSums ==
    /\ \A t \in Threads :
          th[t].pc = "m_level" =>
              LET x == (th[t].gps.lat + th[t].gps.lon) * 1000
                  trunc == IF x >= 0 THEN x \div Scale ELSE -((-x) \div Scale)
              IN  rng = Abs(trunc + th[t].image.width + th[t].image.height)
                            % RngMod
    /\ \A a, b \in Threads :
          (/\ Done(a) /\ Done(b)
           /\ th[a].gps.lat + th[a].gps.lon = th[b].gps.lat + th[b].gps.lon
           /\ th[a].image.width + th[a].image.height
                 = th[b].image.width + th[b].image.height)
              => /\ Report(a).maturity = Report(b).maturity
                 /\ Report(a).pests = Report(b).pests
                 /\ Report(a).diseases = Report(b).diseases

\* a 640x480 and a 480x640 image, taken at two points with the same
\* latitude + longitude, were analyzed, with a disease among the results
C20_Witness ==
    \E a, b \in Threads :
        /\ Done(a) /\ Done(b)
        /\ th[a].image.width = 640 /\ th[b].image.width = 480
        /\ th[a].image.height = 480 /\ th[b].image.height = 640
        /\ th[a].gps.lat # th[b].gps.lat
        /\ th[a].gps.lat + th[a].gps.lon = th[b].gps.lat + th[b].gps.lon
        /\ Report(a).diseases # <<>>
        /\ Report(a).diseases = Report(b).diseases

\* C21: an image that violates several rules at once is reported with one
\* error, by a fixed precedence: the unsupported format before any size
\* check, "too small" before "too large"; an image with one dimension below
\* 224 and the other above 4096 is reported as too small, never as too large.
C21_FixedPrecedence ==
    LET badFormat == imgArg.format \notin {"JPEG", "PNG"}
        small == imgArg.width < 224 \/ imgArg.height < 224
        large == imgArg.width > 4096 \/ imgArg.height > 4096
    IN  /\ (badFormat \/ small \/ large) => imgResult.head \in ValidationHeads
        /\ (badFormat /\ (small \/ large))
              => imgResult.head = "Unsupported image format"
        /\ (~badFormat /\ small /\ large) => imgResult.head = "Image too small"
        /\ (small /\ large) => imgResult.head # "Image too large"

\* an image that breaks all three rules was reported for its format
C21_Witness ==
    /\ imgArg.format = "BMP"
    /\ imgArg.width > 4096 /\ imgArg.height < 224
    /\ imgResult.head = "Unsupported image format"

\* the first check of the handler that a request fails, in the order content
\* type, empty payload, oversized payload, timestamp, image decoding, image
\* validation ("" when it passes them all)
FirstFailingCheck(req) ==
    IF req.content_type \notin {"image/jpeg", "image/png"} THEN "content_type"
    ELSE IF req.upload.len = 0 THEN "empty"
    ELSE IF req.upload.len > 10 * 1024 * 1024 THEN "oversized"
    ELSE IF req.timestamp \notin {<<>>, <<"">>, <<"2026-02-20T10:30:00Z">>}
    THEN "timestamp"
    ELSE IF req.upload.image = <<>> THEN "decode"
    ELSE IF req.upload.image[1].format \notin {"JPEG", "PNG"} THEN "format"
    ELSE IF req.upload.image[1].width < 224 \/ req.upload.image[1].height < 224
    THEN "too_small"
    ELSE IF req.upload.image[1].width > 4096 \/ req.upload.image[1].height > 4096
    THEN "too_large"
    ELSE ""

\* C22: the handler checks content type, empty payload, oversized payload
\* (more than 10 * 1024 * 1024 bytes: exactly 10 MB passes), timestamp, GPS,
\* image decoding and image validation in this order and stops at the first
\* check that fails: the error reported is that of this check, and the
\* generator is untouched unless every check passed.
C22_ChecksInOrder ==
    /\ [](Answered /\ FormOk(Req) =>
            LET wrapped == "Internal server error during image analysis: "
                expected ==
                    [ content_type |-> wrapped \o "400: Invalid image format",
                      empty |-> wrapped \o "400: Empty image file",
                      oversized |-> wrapped
                          \o "413: Image file too large. Maximum 10MB.",
                      timestamp |-> wrapped \o "400: Invalid timestamp format",
                      decode |-> wrapped \o "cannot identify image file",
                      format |-> "Unsupported image format",
                      too_small |-> "Image too small",
                      too_large |-> "Image too large" ]
            IN  /\ FirstFailingCheck(Req) # ""
                      => Resp.error = expected[FirstFailingCheck(Req)]
                /\ (FirstFailingCheck(Req) = ""
                       /\ Req.upload.len = 10 * 1024 * 1024)
                      => Resp.status \in {200, 400}
                           /\ Resp.error \in {"", "VisionAnalysisResponse"})
    /\ [][(/\ request' # <<>>
            /\ request' # request
            /\ FormOk(request'[1])
            /\ FirstFailingCheck(request'[1]) # "") => rng' = rng]_vars

\* a request that fails the content type check, the size check and the
\* timestamp check was answered with the error of the content type check
C22_Witness ==
    /\ Answered /\ FormOk(Req)
    /\ Req.content_type = "text/plain"
    /\ Req.upload.len > 10 * 1024 * 1024
    /\ Req.timestamp = <<"20/02/2026">>
    /\ Resp.error = "Internal server error during image analysis: "
                        \o "400: Invalid image format"

(***************************************************************************)
(* models.py: MaturityAnalysis(...) built directly from field values       *)
(***************************************************************************)
\* MaturityAnalysis(**m): the field constraints, then the field validator,
\* whose return value is what the model stores
MaturityAnalysis(m) ==
    IF MaturityAnalysisOk(m)
    THEN [value |-> <<[m EXCEPT !.estimated_atr = validate_atr(@)]>>,
          error |-> NoError]
    ELSE [value |-> <<>>, error |-> Raise("ValidationError", "MaturityAnalysis")]

\* ATR values below, at the ends of, inside and above the field range
\* [0, 25] and the typical range [8, 20]
AtrValues ==
    {-1, 0, 5 * Scale, 8 * Scale - 1, 8 * Scale, 14 * Scale, 20 * Scale,
     20 * Scale + 1, 22 * Scale, 25 * Scale, 25 * Scale + 1}

ConstructMaturity ==
    /\ draws = NoDraws
    /\ \E level \in Levels \cup {"ripe"}, confidence \in {0, 8500, Scale + 1},
          atr \in AtrValues :
          LET m == [level |-> level, confidence |-> confidence,
                    estimated_atr |-> atr, estimated_pol |-> 14 * Scale,
                    estimated_brix |-> 18 * Scale]
          IN  /\ draws' = [step |-> "MaturityAnalysis", u |-> <<m>>]
              /\ entity' = MaturityAnalysis(m)
    /\ UNCHANGED <<rng, th, gpsArgs, gpsResult, imgArg, imgResult, request,
                   response>>

SpecAtr == InitPure /\ [][ConstructMaturity]_vars

\* C23: validate_atr returns its input unchanged for every value: a model
\* whose other fields are valid is built with the ATR it was given whenever
\* the ATR lies in [0, 25], also outside the typical range [8, 20] (neither
\* clamped nor rejected), and is refused exactly when the ATR lies outside
\* [0, 25].
C23_ValidatorIsNoOp ==
    /\ \A v \in AtrValues : validate_atr(v) = v
    /\ draws.step = "MaturityAnalysis" =>
          LET m == draws.u[1]
          IN  (m.level \in Levels /\ 0 <= m.confidence /\ m.confidence <= Scale)
                => /\ (0 <= m.estimated_atr /\ m.estimated_atr <= 25 * Scale)
                        => /\ entity.error = NoError
                           /\ entity.value[1].estimated_atr = m.estimated_atr
                   /\ (m.estimated_atr < 0 \/ m.estimated_atr > 25 * Scale)
                        => entity.error # NoError

\* a model with an ATR of 22, above the typical range, was built and holds 22
C23_Witness ==
    /\ draws.step = "MaturityAnalysis"
    /\ draws.u[1].estimated_atr = 22 * Scale
    /\ entity.error = NoError
    /\ entity.value[1].estimated_atr = 22 * Scale

(***************************************************************************)
(* api.py: the mock endpoint /api/v1/vision/analyze                        *)
(***************************************************************************)
\* MOCK_SCENARIOS: a detection is abbreviated to its class and severity
MOCK_SCENARIOS ==
    [healthy |->
        [crop_health |-> [status |-> "healthy", confidence |-> 9200,
                          ndvi |-> 8200],
         weeds |-> <<>>, pests |-> <<>>, diseases |-> <<>>],
     weeds |->
        [crop_health |-> [status |-> "stressed", confidence |-> 8700,
                          ndvi |-> 5500],
         weeds |-> <<[class |-> "braquiaria", severity |-> "high"]>>,
         pests |-> <<>>, diseases |-> <<>>],
     pests |->
        [crop_health |-> [status |-> "diseased", confidence |-> 8900,
                          ndvi |-> 4800],
         weeds |-> <<>>,
         pests |-> <<[class |-> "spodoptera_frugiperda",
                      severity |-> "critical"]>>,
         diseases |-> <<[class |-> "ferrugem_sugarcane",
                         severity |-> "medium"]>>]]

\* MOCK_SCENARIOS.get(scenario, MOCK_SCENARIOS["healthy"])
ScenarioData(scenario) ==
    IF scenario \in DOMAIN MOCK_SCENARIOS THEN MOCK_SCENARIOS[scenario]
    ELSE MOCK_SCENARIOS["healthy"]

\* faulty variant: continue_monitoring is appended whatever was detected
RecommendationsAlwaysMonitor(scenario_data) ==
    (IF scenario_data.weeds # <<>>
     THEN <<[action |-> "apply_herbicide", priority |-> "high"]>> ELSE <<>>)
    \o (IF scenario_data.pests # <<>>
        THEN <<[action |-> "apply_pesticide", priority |-> "critical"]>>
        ELSE <<>>)
    \o (IF scenario_data.diseases # <<>>
        THEN <<[action |-> "apply_fungicide", priority |-> "high"]>>
        ELSE <<>>)
    \o <<[action |-> "continue_monitoring", priority |-> "low"]>>

\* the recommendations list: three appends guarded by the detection lists,
\* then continue_monitoring if the list is still empty
Recommendations(scenario_data) ==
    LET found ==
            (IF scenario_data.weeds # <<>>
             THEN <<[action |-> "apply_herbicide", priority |-> "high"]>>
             ELSE <<>>)
            \o (IF scenario_data.pests # <<>>
                THEN <<[action |-> "apply_pesticide", priority |-> "critical"]>>
                ELSE <<>>)
            \o (IF scenario_data.diseases # <<>>
                THEN <<[action |-> "apply_fungicide", priority |-> "high"]>>
                ELSE <<>>)
    IN  IF found = <<>>
        THEN <<[action |-> "continue_monitoring", priority |-> "low"]>>
        ELSE found

\* a query parameter left out takes its default
QueryParam(given, default) == IF given = <<>> THEN default ELSE given[1]

\* scenario names of a query: left out, the three known ones, and others
ScenarioNames ==
    {<<>>, <<"healthy">>, <<"weeds">>, <<"pests">>, <<"Weeds">>, <<"">>,
     <<"diseases">>, <<"crop_health">>}

\* uuid.uuid4().hex[:4].upper()
UuidPrefixes == {"0A1B", "FFFF"}

\* the handler of POST /api/v1/vision/analyze: the two readings of the clock
\* follow one another
AnalyzeMock ==
    /\ \E scenario \in ScenarioNames, field_id \in {<<>>, <<"F002">>},
          zone_id \in {<<>>, <<"Z009">>}, first \in Times, second \in Times,
          hex \in UuidPrefixes :
          LET scenario_data == ScenarioData(QueryParam(scenario, "healthy"))
          IN  /\ first <= second
              /\ request' = <<[scenario |-> scenario, field_id |-> field_id,
                               zone_id |-> zone_id]>>
              /\ response' =
                    <<[analysis_id |-> <<"VIS", first, hex>>,
                       timestamp |-> UtcNow(second),
                       source |-> [device_id |-> "DRONE-V123",
                                   device_type |-> "drone"],
                       location |-> [field_id |-> QueryParam(field_id, "F001"),
                                     zone_id |-> QueryParam(zone_id, "Z001")],
                       detections |-> scenario_data,
                       recommendations |-> Recommendations(scenario_data)]>>
    /\ UNCHANGED <<rng, th, gpsArgs, gpsResult, imgArg, imgResult, draws,
                   entity>>

SpecMock == InitPure /\ [][AnalyzeMock]_vars

\* C24: the mock endpoint answers any scenario name other than healthy,
\* weeds or pests as it answers healthy; its recommendations list is never
\* empty: apply_herbicide for a non-empty weeds list, apply_pesticide for a
\* non-empty pests list, apply_fungicide for a non-empty diseases list, in
\* this order, and continue_monitoring alone exactly when the three lists
\* are empty.
C24_MockRecommendations ==
    response # <<>> =>
        LET d == response[1].detections
            actions == [i \in 1 .. Len(response[1].recommendations) |->
                           response[1].recommendations[i].action]
            treatments ==
                (IF d.weeds # <<>> THEN <<"apply_herbicide">> ELSE <<>>)
                \o (IF d.pests # <<>> THEN <<"apply_pesticide">> ELSE <<>>)
                \o (IF d.diseases # <<>> THEN <<"apply_fungicide">> ELSE <<>>)
            quiet == d.weeds = <<>> /\ d.pests = <<>> /\ d.diseases = <<>>
        IN  /\ request[1].scenario \notin {<<"healthy">>, <<"weeds">>, <<"pests">>}
                  => /\ d.crop_health.status = "healthy"
                     /\ quiet
                     /\ actions = <<"continue_monitoring">>
            /\ request[1].scenario \in {<<"weeds">>, <<"pests">>}
                  => d.crop_health.status # "healthy" /\ ~quiet
            /\ actions # <<>>
            /\ ~quiet => actions = treatments
            /\ quiet <=> (\E i \in 1 .. Len(actions) :
                            actions[i] = "continue_monitoring")
            /\ quiet => Len(actions) = 1

\* the pests scenario, with a pest and a disease, was answered with
\* apply_pesticide and apply_fungicide in this order
C24_Witness ==
    /\ response # <<>>
    /\ request[1].scenario = <<"pests">>
    /\ Len(response[1].recommendations) = 2
    /\ response[1].recommendations[1].action = "apply_pesticide"
    /\ response[1].recommendations[2].action = "apply_fungicide"

(***************************************************************************)
(* mocks: the two harvest-priority listings                                *)
(***************************************************************************)
\* the most fields an analysis file holds here
MaxFields == 3

Reverse(list) == [i \in 1 .. Len(list) |-> list[Len(list) + 1 - i]]

\* a stable ascending sort: the element at index i goes behind every element
\* with a smaller key and every earlier element with the same key
StableSort(list, keys) ==
    LET place(i) ==
            1 + Cardinality({j \in 1 .. Len(list) :
                               \/ keys[j] < keys[i]
                               \/ keys[j] = keys[i] /\ j < i})
    IN  [p \in 1 .. Len(list) |->
            list[CHOOSE i \in 1 .. Len(list) : place(i) = p]]

\* faulty variant: reverse=True as an ascending sort turned around
ListSortTurnedAround(list, keys, reverse) ==
    IF reverse THEN Reverse(StableSort(list, keys))
    ELSE StableSort(list, keys)

\* list.sort(key=, reverse=): with reverse=True the list is reversed, sorted
\* stably and reversed again, so equal keys keep their order
list_sort(list, keys, reverse) ==
    IF reverse THEN Reverse(StableSort(Reverse(list), Reverse(keys)))
    ELSE StableSort(list, keys)

\* vision_analyzer_mock.py: VisionAnalyzer.get_harvest_priority, with
\* self.analysis_data either None (<<>>) or <<data>>
VisionAnalyzer_get_harvest_priority(analysis_data) ==
    IF analysis_data = <<>> THEN <<>>
    ELSE
        LET fields == analysis_data[1].fields
            fields_with_priority ==
                [i \in 1 .. Len(fields) |->
                    [field_id |-> fields[i].field_id,
                     maturity_level |-> fields[i].analysis.maturity_level,
                     priority_score |->
                        IF fields[i].analysis.maturity_level = "optimal" THEN 10
                        ELSE IF fields[i].analysis.maturity_level = "mature"
                        THEN 7
                        ELSE IF fields[i].analysis.maturity_level = "developing"
                        THEN 3
                        ELSE 0]]
        IN  list_sort(fields_with_priority,
                      [i \in 1 .. Len(fields) |->
                          fields_with_priority[i].priority_score],
                      TRUE)

\* maturity_api_mock.py: get_harvest_priority over ANALYSIS_DATA
get_harvest_priority(ANALYSIS_DATA) ==
    LET fields == ANALYSIS_DATA.fields
        label(n) == IF n = 1 THEN "ALTA" ELSE IF n = 2 THEN "MEDIA"
                    ELSE IF n = 3 THEN "BAIXA" ELSE "AGUARDAR"
        rank(level) == IF level = "optimal" THEN 1
                       ELSE IF level = "mature" THEN 2
                       ELSE IF level = "developing" THEN 3
                       ELSE 4
        fields_priority ==
            [i \in 1 .. Len(fields) |->
                [field_id |-> fields[i].field_id,
                 maturity_level |-> fields[i].analysis.maturity_level,
                 priority |-> rank(fields[i].analysis.maturity_level),
                 priority_label |->
                    label(rank(fields[i].analysis.maturity_level))]]
    IN  [total_fields |-> Len(fields_priority),
         fields |-> list_sort(fields_priority,
                              [i \in 1 .. Len(fields) |->
                                  fields_priority[i].priority],
                              FALSE)]

\* maturity levels of an analysis file: the four that analyze_field_maturity
\* gives and one it does not
MaturityLevels == {"optimal", "mature", "developing", "immature", "unknown"}

\* analysis files of up to MaxFields fields; a field's id is its position
AnalysisFiles ==
    UNION {{[fields |-> [i \in 1 .. n |->
                           [field_id |-> i,
                            analysis |-> [maturity_level |-> levels[i]]]]] :
               levels \in [1 .. n -> MaturityLevels]} : n \in 0 .. MaxFields}

\* both listings of one analysis file
HarvestPriority ==
    /\ draws = NoDraws
    /\ \E data \in AnalysisFiles :
          /\ draws' = [step |-> "get_harvest_priority", u |-> <<data>>]
          /\ entity' =
                [value |-> <<VisionAnalyzer_get_harvest_priority(<<data>>),
                             get_harvest_priority(data).fields>>,
                 error |-> NoError]
    /\ UNCHANGED <<rng, th, gpsArgs, gpsResult, imgArg, imgResult, request,
                   response>>

\* the analyzer mock asked before load_analysis
HarvestPriorityUnloaded ==
    /\ draws = NoDraws
    /\ draws' = [step |-> "get_harvest_priority", u |-> <<>>]
    /\ entity' = [value |-> <<VisionAnalyzer_get_harvest_priority(<<>>)>>,
                  error |-> NoError]
    /\ UNCHANGED <<rng, th, gpsArgs, gpsResult, imgArg, imgResult, request,
                   response>>

NextPriority == HarvestPriority \/ HarvestPriorityUnloaded

SpecPriority == InitPure /\ [][NextPriority]_vars

\* C25: the analyzer mock (priority_score 10/7/3/0, descending) and the
\* maturity API mock (priority 1/2/3/4, ascending) list the fields of the
\* same data in the same order: optimal first, then mature, then developing,
\* then all others, fields of equal priority in their input order; the
\* analyzer mock returns an empty list when no analysis is loaded.
C25_SameOrder ==
    draws.step = "get_harvest_priority" =>
        IF draws.u = <<>> THEN entity.value[1] = <<>>
        ELSE
            LET given == draws.u[1].fields
                byScore == entity.value[1]
                byRank == entity.value[2]
                class(level) == IF level = "optimal" THEN 1
                                ELSE IF level = "mature" THEN 2
                                ELSE IF level = "developing" THEN 3
                                ELSE 4
            IN  /\ Len(byScore) = Len(given) /\ Len(byRank) = Len(given)
                /\ \A i \in 1 .. Len(given) :
                      /\ byScore[i].field_id = byRank[i].field_id
                      /\ byScore[i].field_id \in 1 .. Len(given)
                      /\ byScore[i].maturity_level
                            = given[byScore[i].field_id].analysis.maturity_level
                      /\ byRank[i].maturity_level = byScore[i].maturity_level
                /\ \A i, j \in 1 .. Len(given) :
                      i < j =>
                        \/ class(byScore[i].maturity_level)
                              < class(byScore[j].maturity_level)
                        \/ /\ class(byScore[i].maturity_level)
                                = class(byScore[j].maturity_level)
                           /\ byScore[i].field_id < byScore[j].field_id

\* two mature fields around an optimal one: both listings put the optimal
\* field first and keep the mature fields in their input order
C25_Witness ==
    /\ draws.step = "get_harvest_priority"
    /\ draws.u # <<>>
    /\ Len(draws.u[1].fields) = 3
    /\ draws.u[1].fields[1].analysis.maturity_level = "mature"
    /\ draws.u[1].fields[2].analysis.maturity_level = "optimal"
    /\ draws.u[1].fields[3].analysis.maturity_level = "mature"
    /\ [i \in 1 .. 3 |-> entity.value[1][i].field_id] = <<2, 1, 3>>
    /\ [i \in 1 .. 3 |-> entity.value[2][i].field_id] = <<2, 1, 3>>

====
